---------------------------- MODULE Spec2Model ----------------------------
(***************************************************************************)
(* A model of the YDBGo2 binding prototypes: the per-thread connection,    *)
(* the node (a packed hierarchical key) and the Get/Set call path into the *)
(* YottaDB engine.  The repository holds four iterations of the design;    *)
(* `variant` says which one a behaviour runs:                              *)
(*   "cgo"       src/node.go 1-189            (Conn, C-allocated buffers)  *)
(*   "pinner"    src/unnamed/part_000 107-290 (runtime.Pinner)             *)
(*   "keepalive" src/unnamed/part_000 1-106   (runtime.KeepAlive)          *)
(*   "main"      src/node.go 191-280          (package main prototype)     *)
(* Text is a sequence of one-character strings, a database value a         *)
(* sequence of small integers (bytes).                                     *)
(***************************************************************************)
EXTENDS Integers, Sequences, FiniteSets, TLC

VARIABLES
    variant,    \* which prototype this behaviour runs
    conns,      \* connection structs, by thread/connection id
    errmem,     \* bytes of each connection's error-message region
    valmem,     \* bytes of each connection's value region (cgo)
    nodes,      \* the nodes constructed so far, in order of construction
    db,         \* the engine's store: key -> value or Undef
    written,    \* per key, the argument of the last Set that returned nil
    last,       \* the last call the caller made and what it handed back
    kept,       \* a value Get returned that the caller holds on to
    gc,         \* garbage collector view: references, cleanups, frees
    crashed     \* the process died (fatal signal in native code)

vars == <<variant, conns, errmem, valmem, nodes, db, written, last, kept,
          gc, crashed>>

---------------------------------------------------------------------------
\* Bounds of the model.  The sizes stand for the engine's limits, scaled.

\* number of nodes a behaviour constructs
MaxNodes == 2
\* longest value the engine stores (YDB_MAX_STR), and the cgo value buffer
MaxStr == 3
\* capacity of the scratch buffer Get starts with (InitialBufSize)
InitialBufSize == 1
\* capacity of the error-message region (YDB_MAX_ERRORMSG)
MaxErrMsg == 2
\* bytes of a C pointer
PtrSize == 1
\* how often SetMaxErr is called in a behaviour
MaxResize == 1

Variants == {"cgo", "pinner", "keepalive", "main"}
Conns == {1, 2}

---------------------------------------------------------------------------
\* Small helpers on sequences.

Min(a, b) == IF a < b THEN a ELSE b

Take(s, n) == SubSeq(s, 1, Min(n, Len(s)))

Drop(s, n) == SubSeq(s, n + 1, Len(s))

Fill(n, x) == [i \in 1..n |-> x]

\* s with its first Len(t) places overwritten by t (t no longer than s)
Overwrite(s, t) == [i \in 1..Len(s) |-> IF i <= Len(t) THEN t[i] ELSE s[i]]

RECURSIVE Concat(_)
Concat(ss) == IF ss = <<>> THEN <<>> ELSE Head(ss) \o Concat(Tail(ss))

RECURSIVE SumLen(_)
SumLen(ss) == IF ss = <<>> THEN 0 ELSE Len(Head(ss)) + SumLen(Tail(ss))

---------------------------------------------------------------------------
\* C data: pointers and ydb_buffer_t descriptors.

Ptr(r, i, g, o) == [rgn |-> r, id |-> i, gen |-> g, off |-> o]
Null == Ptr("null", 0, 0, 0)
\* a pointer whose bytes were overwritten: it addresses nothing the program owns
Wild == Ptr("wild", 0, 0, 0)

Desc(a, la, lu) == [buf_addr |-> a, len_alloc |-> la, len_used |-> lu]
ZeroDesc == Desc(Null, 0, 0)

\* status codes of libyottadb.h
YDB_OK == "YDB_OK"
YDB_ERR_INVSTRLEN == "YDB_ERR_INVSTRLEN"
YDB_ERR_GVUNDEF == "YDB_ERR_GVUNDEF"
YDB_ERR_LVUNDEF == "YDB_ERR_LVUNDEF"
YDB_ERR_INVVARNAME == "YDB_ERR_INVVARNAME"
YDB_NOTTP == "YDB_NOTTP"


---------------------------------------------------------------------------
\* Inputs the behaviours draw from.

\* component texts: an empty name, a global name, a local name, and two
\* subscripts made of the very characters String() frames subscripts with
EmptyText == <<>>
GName == <<"^", "g">>
LName == <<"v">>
SubOpen == <<"(", "\"">>
SubClose == <<"\"", ")">>

\* the argument lists given to the node constructors
NodeInputSeq == << <<>>, <<EmptyText>>, <<GName>>, <<LName, SubOpen, SubClose>> >>
NodeInputs == {NodeInputSeq[k] : k \in 1..Len(NodeInputSeq)}

\* Nodes do not depend on the order they are built in, so the behaviours
\* build them in one order: by connection, then by argument list
SlotRank(c, subscripts) ==
    (c - 1) * Len(NodeInputSeq)
    + (CHOOSE k \in 1..Len(NodeInputSeq) : NodeInputSeq[k] = subscripts)

\* the values given to Set: empty, one byte, one of the greatest length the
\* engine stores, and one a byte longer than that
InputVals == { <<>>, <<1>>, Fill(MaxStr, 2), Fill(MaxStr + 1, 1) }

\* the mark of a key that holds no value
Undef == <<-1>>

\* default lists given to Get
Defaults == { <<>>, << <<9>> >> }

\* the content of memory nothing has written yet
UnsetChar == "?"

---------------------------------------------------------------------------
\* Go values handed back to the caller.  A Go string made by C.GoStringN is
\* a copy (mem = "go"); a value that instead still referred to a C region
\* would read whatever that region holds when it is looked at.

GoCopy(b) == [mem |-> "go", id |-> 0, n |-> Len(b), bytes |-> b]

GoAlias(r, i, n) == [mem |-> r, id |-> i, n |-> n, bytes |-> <<>>]

\* the bytes a held Go value shows when the value regions are vm and the
\* error regions em
DerefIn(s, vm, em) ==
    IF s.mem = "go" THEN s.bytes
    ELSE IF s.mem = "val" THEN Take(vm[s.id], s.n)
    ELSE IF s.mem = "err" THEN Take(em[s.id], s.n)
    ELSE <<>>

\* the bytes a held Go value shows now
Deref(s) == DerefIn(s, valmem, errmem)

\* the nil error, and an error object
Nil == [isnil |-> TRUE, code |-> YDB_OK, msg |-> GoCopy(<<>>)]

\* src/unnamed/part_001: Error(code, message) = &YDBError{code, message}
YDBError(code, message) == [isnil |-> FALSE, code |-> code, msg |-> message]

\* src/unnamed/part_001: (*YDBError).Code
Code(err) == err.code

\* src/unnamed/part_001: (*YDBError).Error
ErrorText(err) == Deref(err.msg)

---------------------------------------------------------------------------
\* Reading C memory.

\* C.GoStringN(addr, n) where addr addresses the bytes mem: a fresh Go string
\* holding the first n of them
GoStringN(mem, n) == GoCopy(Take(mem, n))

---------------------------------------------------------------------------
\* Connection.

NoConn == [made |-> FALSE, tptoken |-> YDB_NOTTP, errstr |-> ZeroDesc,
           value |-> ZeroDesc]

\* src/node.go 49-62: NewConn, the struct it fills
NewConnCgo(c) ==
    [made |-> TRUE, tptoken |-> YDB_NOTTP,
     errstr |-> Desc(Ptr("err", c, 0, 0), MaxErrMsg, 0),
     value |-> Desc(Ptr("val", c, 0, 0), MaxStr, 0)]

\* src/unnamed/part_000 149-157: New, the struct it fills
NewConnPinner(c) ==
    [made |-> TRUE, tptoken |-> YDB_NOTTP,
     errstr |-> Desc(Ptr("err", c, 0, 0), MaxErrMsg, 0),
     value |-> ZeroDesc]

\* src/unnamed/part_000 32-36: New sets the token only; errstrC stays zero
NewConnKeepalive(c) ==
    [made |-> TRUE, tptoken |-> YDB_NOTTP, errstr |-> ZeroDesc,
     value |-> ZeroDesc]

\* src/node.go 222-226: New of package main, errstr = make([]byte, 1024)
NewConnMain(c) ==
    [made |-> TRUE, tptoken |-> YDB_NOTTP,
     errstr |-> Desc(Ptr("err", c, 0, 0), MaxErrMsg, 0),
     value |-> ZeroDesc]

NewConnStruct(c) ==
    CASE variant = "cgo" -> NewConnCgo(c)
      [] variant = "pinner" -> NewConnPinner(c)
      [] variant = "keepalive" -> NewConnKeepalive(c)
      [] OTHER -> NewConnMain(c)

\* the bytes of the error region struct cs points at, em being the error
\* regions by connection
ErrRegion(cs, em) ==
    IF cs.errstr.buf_addr.rgn = "err" THEN em[cs.errstr.buf_addr.id] ELSE <<>>

\* an error whose message still refers to the error region
ErrorAliased(cs, emem, code) ==
    IF code = YDB_OK THEN Nil
    ELSE YDBError(code, GoAlias(cs.errstr.buf_addr.rgn, cs.errstr.buf_addr.id,
                                cs.errstr.len_used))

\* Error(code) of a connection struct cs whose error region holds emem
\* (src/node.go 75-82, src/unnamed/part_000 39-46 and 165-172): nil for
\* YDB_OK, else the code with a copy of the first len_used bytes
Error(cs, emem, code) ==
    IF code = YDB_OK THEN Nil
    ELSE YDBError(code, GoStringN(emem, cs.errstr.len_used))


---------------------------------------------------------------------------
\* Node construction.

\* the outcome of a constructor call: a panic ("usage": the zero-component
\* check, "index": an index out of range) or a node
Panicked(kind) == [panic |-> kind, node |-> <<>>]
Built(n) == [panic |-> "none", node |-> <<n>>]

\* descriptors that all address the start of the backing data
FillBuffersFixed(subscripts, nid, strptr) ==
    [k \in 1..Len(subscripts) |->
        Desc(Ptr("node", nid, 0, strptr), Len(subscripts[k]), Len(subscripts[k]))]

\* src/node.go 127-135: the loop that fills buffers[i]; strptr runs over the
\* backing data, which starts right after the descriptor array
RECURSIVE FillBuffers(_, _, _)
FillBuffers(subscripts, nid, strptr) ==
    IF subscripts = <<>> THEN <<>>
    ELSE LET s == Head(subscripts)
         IN  <<Desc(Ptr("node", nid, 0, strptr), Len(s), Len(s))>>
             \o FillBuffers(Tail(subscripts), nid, strptr + Len(s))

\* src/node.go 97-137: Conn.New.  joiner holds the concatenated strings;
\* &joiner.Bytes()[0] indexes an empty slice when every string is empty
ConnNewCgo(c, subscripts, nid) ==
    IF Len(subscripts) = 0 THEN Panicked("usage")
    ELSE LET joiner == Concat(subscripts)
         IN  IF Len(joiner) = 0 THEN Panicked("index")
             ELSE Built([owner |-> c, conn |-> NoConn, args |-> subscripts,
                         bufGo |-> <<>>, len |-> Len(subscripts),
                         mutable |-> FALSE,
                         bufs |-> FillBuffers(subscripts, nid, 0),
                         data |-> joiner])

\* src/unnamed/part_000 202-212: buf := &n.bufC[i] points into the node, so
\* the three assignments fill the node's descriptor i
PinnedBuffers(subscripts, nid) ==
    [i \in 1..Len(subscripts) |->
        Desc(Ptr("str", nid, i, 0), Len(subscripts[i]), Len(subscripts[i]))]

\* src/unnamed/part_000 194-217: connection.New of the pinner prototype;
\* n.conn = *conn copies the connection struct into the node
ConnNewPinner(c, subscripts, nid) ==
    IF Len(subscripts) = 0 THEN Panicked("usage")
    ELSE Built([owner |-> c, conn |-> conns[c], args |-> subscripts,
                bufGo |-> subscripts, len |-> Len(subscripts),
                mutable |-> FALSE,
                bufs |-> PinnedBuffers(subscripts, nid),
                data |-> <<>>])

\* src/unnamed/part_000 76-84: buf := n.bufC[i] is a copy of descriptor i, so
\* the three assignments fill the copy and the node's descriptor stays zero
CopiedBuffers(subscripts, nid) ==
    [i \in 1..Len(subscripts) |-> ZeroDesc]

\* src/unnamed/part_000 67-86: connection.New of the KeepAlive prototype
ConnNewKeepalive(c, subscripts, nid) ==
    IF Len(subscripts) = 0 THEN Panicked("usage")
    ELSE Built([owner |-> c, conn |-> conns[c], args |-> subscripts,
                bufGo |-> subscripts, len |-> Len(subscripts),
                mutable |-> FALSE,
                bufs |-> CopiedBuffers(subscripts, nid),
                data |-> <<>>])

\* src/node.go 252-268: connection.New of package main: no check of
\* len(subscripts); buf := &n.bufC[i] fills the node's descriptors
ConnNewMain(c, subscripts, nid) ==
    Built([owner |-> c, conn |-> conns[c], args |-> subscripts,
           bufGo |-> subscripts, len |-> Len(subscripts),
           mutable |-> FALSE,
           bufs |-> PinnedBuffers(subscripts, nid),
           data |-> <<>>])

ConnNew(c, subscripts, nid) ==
    CASE variant = "cgo" -> ConnNewCgo(c, subscripts, nid)
      [] variant = "pinner" -> ConnNewPinner(c, subscripts, nid)
      [] variant = "keepalive" -> ConnNewKeepalive(c, subscripts, nid)
      [] OTHER -> ConnNewMain(c, subscripts, nid)

\* the bytes descriptor d of node n addresses: its first len_used bytes at
\* buf_addr, in the node's own block (cgo) or in the Go string it points at
DescBytes(n, d) ==
    IF d.buf_addr.rgn = "node"
    THEN SubSeq(n.data, d.buf_addr.off + 1, d.buf_addr.off + d.len_used)
    ELSE IF d.buf_addr.rgn = "str"
    THEN Take(n.bufGo[d.buf_addr.gen], d.len_used)
    ELSE <<>>

\* src/node.go 140-154 and src/unnamed/part_000 220-234: String(), reading
\* every descriptor and framing each but the first with (" and ")
RECURSIVE StringFrom(_, _)
StringFrom(n, i) ==
    IF i > n.len THEN <<>>
    ELSE LET s == DescBytes(n, n.bufs[i])
         IN  (IF i > 1 THEN <<"(", "\"">> ELSE <<>>)
             \o s
             \o (IF i > 1 THEN <<"\"", ")">> ELSE <<>>)
             \o StringFrom(n, i + 1)

\* a rendering that stops after the first descriptor
StringRootOnly(n) == DescBytes(n, n.bufs[1])

String(n) == StringFrom(n, 1)


---------------------------------------------------------------------------
\* The engine, as the call surface the binding uses (libyottadb's
\* ydb_get_st and ydb_set_st).

\* the key the engine reads through a node's descriptors: &bufs[0] is the
\* name, the len - 1 descriptors from &bufs[1] are the subscripts
NativeKey(n) == [i \in 1..n.len |-> DescBytes(n, n.bufs[i])]

\* the keys the engine accepts: a name that is not empty
DbKeys == {k \in NodeInputs : Len(k) >= 1 /\ k[1] # <<>>}

ValidKey(key) == key \in DbKeys

UndefStatus(key) ==
    IF key[1][1] = "^" THEN YDB_ERR_GVUNDEF ELSE YDB_ERR_LVUNDEF

\* the engine's message for a status
Msg(status) ==
    CASE status = YDB_ERR_GVUNDEF -> <<"G", "V">>
      [] status = YDB_ERR_LVUNDEF -> <<"L">>
      [] status = YDB_ERR_INVSTRLEN -> <<"I", "S">>
      [] OTHER -> <<"N">>

\* an engine that also moves the descriptor to another buffer
NativeErrMoved(d, emem, status) ==
    [d |-> [d EXCEPT !.buf_addr = Null], mem |-> emem]

\* what a call leaves in the error descriptor d and its region emem: on a
\* failure the message, cut to len_alloc, and its length; nothing on success
NativeErr(d, emem, status) ==
    IF status = YDB_OK THEN [d |-> d, mem |-> emem]
    ELSE LET m == Take(Msg(status), d.len_alloc)
         IN  [d |-> [d EXCEPT !.len_used = Len(m)],
              mem |-> IF d.buf_addr.rgn = "err"
                      THEN Overwrite(emem, Take(m, Len(emem))) ELSE emem]

\* ydb_get_st for key with the out descriptor out: the status, the out
\* descriptor's len_used after the call and the bytes written at its address
ydb_get_st(store, key, out) ==
    IF ~ValidKey(key)
    THEN [status |-> YDB_ERR_INVVARNAME, len_used |-> out.len_used, bytes |-> <<>>]
    ELSE IF store[key] = Undef
    THEN [status |-> UndefStatus(key), len_used |-> out.len_used, bytes |-> <<>>]
    ELSE IF Len(store[key]) > out.len_alloc
    THEN [status |-> YDB_ERR_INVSTRLEN, len_used |-> Len(store[key]), bytes |-> <<>>]
    ELSE [status |-> YDB_OK, len_used |-> Len(store[key]), bytes |-> store[key]]

\* ydb_set_st for key with the value bytes the engine read: status and store
ydb_set_st(store, key, bytes) ==
    IF ~ValidKey(key)
    THEN [status |-> YDB_ERR_INVVARNAME, store |-> store]
    ELSE IF Len(bytes) > MaxStr
    THEN [status |-> YDB_ERR_INVSTRLEN, store |-> store]
    ELSE [status |-> YDB_OK, store |-> [store EXCEPT ![key] = bytes]]

\* n bytes of memory the program did not write, told from every input value
Foreign(n) == [k \in 1..n |-> n - k]

\* the engine reading d.len_used bytes at d.buf_addr, vmem being the value
\* region of the connection.  Through a pointer that addresses no region of
\* the program the read is undefined: the process dies, or it reads whatever
\* bytes lie there, which are not those of the value
ReadThrough(d, vmem) ==
    IF d.len_used = 0 THEN {[crash |-> FALSE, bytes |-> <<>>]}
    ELSE IF d.buf_addr.rgn = "val"
    THEN {[crash |-> FALSE, bytes |-> Take(vmem, d.len_used)]}
    ELSE {[crash |-> TRUE, bytes |-> <<>>]}
         \cup {[crash |-> FALSE, bytes |-> Foreign(d.len_used)]}


---------------------------------------------------------------------------
\* What a call hands back, as the caller sees it: the call (op, node, arg),
\* whether it panicked, and its results.  For Get also how it went: the
\* number of engine calls, the first status and the length it reported, the
\* allocated length of the second buffer, the final status, and what the
\* engine held under the key.

NoCall == [op |-> "none", node |-> 0, conn |-> 0, arg |-> <<>>,
           panic |-> "none", val |-> GoCopy(<<>>), err |-> Nil,
           calls |-> 0, first |-> YDB_OK, need |-> 0, retry |-> 0,
           final |-> YDB_OK, stored |-> Undef]

\* what the engine holds under the key a node addresses
Stored(n) == IF ValidKey(NativeKey(n)) THEN db[NativeKey(n)] ELSE Undef

\* a test that takes every failure for an undefined key
IsUndefOrFailed(status) == status # YDB_OK

\* src/node.go 180, src/unnamed/part_000 279: the statuses a default covers
IsUndef(status) == status = YDB_ERR_GVUNDEF \/ status = YDB_ERR_LVUNDEF


---------------------------------------------------------------------------
\* Set.

\* src/node.go 163: C.memcpy(&n.conn.value.buf_addr, ..., len(val)).  The
\* destination is the address of the pointer field, not the buffer: bytes of
\* val overwrite the pointer itself, which then addresses no buffer
MemcpyValue(cs, val) ==
    IF Len(val) = 0 THEN cs ELSE [cs EXCEPT !.value.buf_addr = Wild]

\* the bytes of that copy that do not fit in the pointer field: value is the
\* last field of the struct, so they are written past its end
Overflow(val) == Drop(val, PtrSize)

\* a connection struct whose leading fields are overwritten by the bytes ov,
\* in the layout of C.conn: tptoken, errstr, value, a descriptor being
\* len_alloc, len_used, buf_addr (src/node.go 20-24)
Clobber(cs, ov) ==
    LET k == Len(ov)
    IN  [made |-> cs.made,
         tptoken |-> IF k >= 1 THEN "clobbered" ELSE cs.tptoken,
         errstr |-> Desc(IF k >= 4 THEN Wild ELSE cs.errstr.buf_addr,
                         IF k >= 2 THEN ov[2] ELSE cs.errstr.len_alloc,
                         IF k >= 3 THEN ov[3] ELSE cs.errstr.len_used),
         value |-> Desc(IF k >= 7 THEN Wild ELSE cs.value.buf_addr,
                        IF k >= 5 THEN ov[5] ELSE cs.value.len_alloc,
                        IF k >= 6 THEN ov[6] ELSE cs.value.len_used)]

\* where the overflowing bytes land: in memory the model does not follow (0),
\* or in another connection struct the Go heap placed next to this one
Victims(c, ov) ==
    IF ov = <<>> THEN {0} ELSE {0} \cup {v \in Conns \ {c} : conns[v].made}

\* the error regions after a call left emem in the region struct cs points at
ErrMemAfter(cs, emem) ==
    IF cs.errstr.buf_addr.rgn = "err"
    THEN [errmem EXCEPT ![cs.errstr.buf_addr.id] = emem] ELSE errmem

SetCall(i, val) == [NoCall EXCEPT !.op = "set", !.node = i, !.arg = val]

\* a capacity test that lets every value through
OverCapacityNever(cs, val) == FALSE

\* src/node.go 159: the capacity test of Node.Set
OverCapacity(cs, val) == Len(val) > cs.value.len_alloc

\* src/node.go 157-169: Node.Set of the cgo prototype
SetCgo(i, val) ==
    LET n == nodes[i]
        c == n.owner
        cs == conns[c]
    IN  IF OverCapacity(cs, val)
        THEN /\ last' = [SetCall(i, val) EXCEPT !.panic = "usage"]
             /\ UNCHANGED <<conns, errmem, valmem, nodes, db, written, kept, crashed>>
        ELSE LET cs2 == [MemcpyValue(cs, val) EXCEPT !.value.len_used = Len(val)]
             IN  \E victim \in Victims(c, Overflow(val)) :
                 \E rd \in ReadThrough(cs2.value, valmem[c]) :
                    LET heap == [x \in Conns |->
                                    IF x = c THEN cs2
                                    ELSE IF x = victim
                                    THEN Clobber(conns[x], Overflow(val))
                                    ELSE conns[x]]
                        r == ydb_set_st(db, NativeKey(n), rd.bytes)
                        e == NativeErr(cs2.errstr, ErrRegion(cs2, errmem), r.status)
                        cs3 == [cs2 EXCEPT !.errstr = e.d]
                    IN  IF rd.crash
                        THEN /\ crashed' = TRUE
                             /\ conns' = heap
                             /\ last' = [SetCall(i, val) EXCEPT !.panic = "crash"]
                             /\ UNCHANGED <<errmem, valmem, nodes, db, written, kept>>
                        ELSE /\ conns' = [heap EXCEPT ![c] = cs3]
                             /\ errmem' = ErrMemAfter(cs2, e.mem)
                             /\ db' = r.store
                             /\ written' = IF r.status = YDB_OK
                                           THEN [written EXCEPT ![NativeKey(n)] = val]
                                           ELSE written
                             /\ last' = [SetCall(i, val) EXCEPT
                                            !.err = Error(cs3, e.mem, r.status),
                                            !.calls = 1, !.final = r.status]
                             /\ UNCHANGED <<valmem, nodes, kept, crashed>>

\* src/unnamed/part_000 94-105 and 237-252: node.Set of the Go-memory
\* prototypes: valC addresses the bytes of val itself; the error buffer and
\* token are those of the node's own copy of the connection struct
SetGo(i, val) ==
    LET n == nodes[i]
        cs == n.conn
        r == ydb_set_st(db, NativeKey(n), val)
        e == NativeErr(cs.errstr, ErrRegion(cs, errmem), r.status)
        cs1 == [cs EXCEPT !.errstr = e.d]
    IN  /\ nodes' = [nodes EXCEPT ![i].conn = cs1]
        /\ errmem' = ErrMemAfter(cs, e.mem)
        /\ db' = r.store
        /\ written' = IF r.status = YDB_OK
                      THEN [written EXCEPT ![NativeKey(n)] = val]
                      ELSE written
        /\ last' = [SetCall(i, val) EXCEPT
                       !.err = Error(cs1, e.mem, r.status),
                       !.calls = 1, !.final = r.status]
        /\ UNCHANGED <<conns, valmem, kept, crashed>>


---------------------------------------------------------------------------
\* Get.

GetCall(i, deflt) == [NoCall EXCEPT !.op = "get", !.node = i, !.arg = deflt]

\* a returned value that still refers to the connection's value region
CopyOutAliased(c, d, vmem) ==
    IF d.buf_addr.rgn = "val" THEN GoAlias("val", c, d.len_used)
    ELSE GoCopy(Take(vmem, d.len_used))

\* src/node.go 187: value := C.GoStringN(n.conn.value.buf_addr, len_used),
\* a copy of the first len_used bytes of connection c's value region vmem
CopyOutCgo(c, d, vmem) == GoStringN(vmem, d.len_used)

\* src/unnamed/part_000 284: value = C.GoStringN(buf.buf_addr, len_used),
\* a copy of the first len_used bytes of the scratch space
CopyOutPinner(d, space) == GoStringN(space, d.len_used)

\* src/node.go 180-188: what Get returns for the status err of its one call
ResultCgo(c, cs, emem, vmem, err, deflt) ==
    IF Len(deflt) > 0 /\ IsUndef(err)
    THEN [val |-> GoCopy(deflt[1]), err |-> Error(cs, emem, YDB_OK)]
    ELSE IF err # YDB_OK
    THEN [val |-> GoCopy(<<>>), err |-> Error(cs, emem, err)]
    ELSE [val |-> CopyOutCgo(c, cs.value, vmem), err |-> Nil]

\* src/node.go 174-189: Node.Get of the cgo prototype.  The engine writes
\* the value at value.buf_addr; through a pointer that addresses no buffer
\* that write is undefined: the process dies, or the bytes land in memory
\* the model does not follow and are read back from there
GetCgo(i, deflt) ==
    LET n == nodes[i]
        c == n.owner
        cs == conns[c]
        r == ydb_get_st(db, NativeKey(n), cs.value)
        e == NativeErr(cs.errstr, ErrRegion(cs, errmem), r.status)
        cs1 == [cs EXCEPT !.value.len_used = r.len_used, !.errstr = e.d]
        inbuf == cs.value.buf_addr.rgn = "val"
        undefined == r.status = YDB_OK /\ Len(r.bytes) > 0 /\ ~inbuf
        vmem == IF r.status = YDB_OK /\ inbuf
                THEN Overwrite(valmem[c], Take(r.bytes, Len(valmem[c])))
                ELSE valmem[c]
        seen == IF inbuf THEN vmem ELSE r.bytes
        res == ResultCgo(c, cs1, e.mem, seen, r.status, deflt)
        how == [GetCall(i, deflt) EXCEPT !.calls = 1, !.first = r.status,
                   !.need = IF r.status = YDB_ERR_INVSTRLEN
                            THEN r.len_used ELSE 0,
                   !.final = r.status,
                   !.stored = Stored(n)]
    IN  \E crash \in IF undefined THEN {TRUE, FALSE} ELSE {FALSE} :
          IF crash
          THEN /\ crashed' = TRUE
               /\ last' = [GetCall(i, deflt) EXCEPT !.panic = "crash"]
               /\ UNCHANGED <<conns, errmem, valmem, nodes, db, written, kept>>
          ELSE /\ conns' = [conns EXCEPT ![c] = cs1]
               /\ errmem' = ErrMemAfter(cs, e.mem)
               /\ valmem' = [valmem EXCEPT ![c] = vmem]
               /\ last' = IF r.status = YDB_ERR_INVSTRLEN
                          THEN [how EXCEPT !.panic = "usage"]
                          ELSE [how EXCEPT !.val = res.val, !.err = res.err]
               /\ UNCHANGED <<nodes, db, written, kept, crashed>>

\* src/unnamed/part_000 279-288: what Get returns for the status err of its
\* last call, buf and space being the scratch descriptor and its bytes
ResultPinner(cs, emem, buf, space, err, deflt) ==
    LET dflt == Len(deflt) > 0 /\ IsUndef(err)
        err1 == IF dflt THEN YDB_OK ELSE err
        value1 == IF dflt THEN GoCopy(deflt[1]) ELSE GoCopy(<<>>)
        value2 == IF err1 = YDB_OK THEN CopyOutPinner(buf, space) ELSE value1
    IN  [val |-> value2, err |-> Error(cs, emem, err1)]

\* a retry that does not grow the space
RetrySizeInitial(buf) == InitialBufSize

\* src/unnamed/part_000 272: space := make([]byte, buf.len_used), buf being
\* the scratch descriptor as the first call left it
RetrySize(buf) == buf.len_used

\* src/unnamed/part_000 257-289: node.Get of the pinner prototype: a fresh
\* zeroed scratch space of InitialBufSize bytes, and on YDB_ERR_INVSTRLEN a
\* second space of buf.len_used bytes and a second call.  mid is the store
\* as the second call finds it
GetPinnerAmid(i, deflt, mid) ==
    LET n == nodes[i]
        cs == n.conn
        buf0 == Desc(Ptr("scratch", i, 0, 0), InitialBufSize, 0)
        r1 == ydb_get_st(db, NativeKey(n), buf0)
        e1 == NativeErr(cs.errstr, ErrRegion(cs, errmem), r1.status)
        again == r1.status = YDB_ERR_INVSTRLEN
        buf1 == Desc(Ptr("scratch", i, 1, 0),
                     RetrySize([buf0 EXCEPT !.len_used = r1.len_used]), 0)
        r2 == ydb_get_st(mid, NativeKey(n), buf1)
        e2 == NativeErr(e1.d, e1.mem, r2.status)
        r == IF again THEN r2 ELSE r1
        e == IF again THEN e2 ELSE e1
        alloc == IF again THEN buf1.len_alloc ELSE buf0.len_alloc
        buf == Desc(Ptr("scratch", i, 0, 0), alloc, r.len_used)
        space == Overwrite(Fill(alloc, 0), Take(r.bytes, alloc))
        cs1 == [cs EXCEPT !.errstr = e.d]
        res == ResultPinner(cs1, e.mem, buf, space, r.status, deflt)
    IN  /\ nodes' = [nodes EXCEPT ![i].conn = cs1]
        /\ errmem' = ErrMemAfter(cs, e.mem)
        /\ last' = [GetCall(i, deflt) EXCEPT
                       !.val = res.val, !.err = res.err,
                       !.calls = IF again THEN 2 ELSE 1,
                       !.first = r1.status,
                       !.need = IF again THEN r1.len_used ELSE 0,
                       !.retry = IF again THEN buf1.len_alloc ELSE 0,
                       !.final = r.status, !.stored = Stored(n)]
        /\ UNCHANGED <<conns, valmem, kept, crashed>>

\* node.Get with no other thread's call between its two engine calls
GetPinner(i, deflt) ==
    /\ GetPinnerAmid(i, deflt, db)
    /\ UNCHANGED <<db, written>>


---------------------------------------------------------------------------
\* The garbage collector's view: which objects the caller still refers to,
\* the cleanups registered with runtime.AddCleanup, and what has been freed.

Obj(k, i) == [kind |-> k, id |-> i]
Objs == {Obj("conn", c) : c \in Conns} \cup {Obj("node", i) : i \in 1..MaxNodes}

Res(r, i) == [rgn |-> r, id |-> i]
Resources == {Res(r, c) : r \in {"err", "val"}, c \in Conns}
             \cup {Res("node", i) : i \in 1..MaxNodes}

\* a registered cleanup: the object it is attached to, what its argument
\* refers to ("self": the object itself, "handles": only what it releases)
\* and whether the object is memory the Go collector manages
Hook(o, arg, managed) == [obj |-> o, arg |-> arg, managed |-> managed]

\* src/node.go 63-70: runtime.AddCleanup(conn, func(conn *Conn){...}, &conn):
\* the argument handed to the cleanup is the connection itself
HookConnCgo(c) == {Hook(Obj("conn", c), "self", TRUE)}

\* src/unnamed/part_000 158-160: the argument is the pinner
HookConnPinner(c) == {Hook(Obj("conn", c), "handles", TRUE)}

\* src/node.go 114-118: n is the calloc'ed block, and the argument is n
HookNodeCgo(i) == {Hook(Obj("node", i), "self", FALSE)}

\* src/unnamed/part_000 213-215: the argument is the node's pinner
HookNodePinner(i) == {Hook(Obj("node", i), "handles", TRUE)}

HooksOfConn(c) ==
    CASE variant = "cgo" -> HookConnCgo(c)
      [] variant = "pinner" -> HookConnPinner(c)
      [] OTHER -> {}

HooksOfNode(i) ==
    CASE variant = "cgo" -> HookNodeCgo(i)
      [] variant = "pinner" -> HookNodePinner(i)
      [] OTHER -> {}

\* the native blocks an object owns: C.malloc at src/node.go 53 and 59,
\* C.calloc at src/node.go 114
Owned(o) ==
    IF variant # "cgo" THEN {}
    ELSE IF o.kind = "conn" THEN {Res("err", o.id), Res("val", o.id)}
    ELSE {Res("node", o.id)}

\* what the cleanup function of object o frees (src/node.go 64-69: the value
\* and error buffers; src/node.go 117: the node block)
CleanupFrees(o) ==
    IF variant # "cgo" THEN {}
    ELSE IF o.kind = "conn" THEN {Res("val", o.id), Res("err", o.id)}
    ELSE {Res("node", o.id)}

\* the collector's rule: an object is kept while the caller refers to it or
\* a pending cleanup's argument does
Reachable(o) ==
    \/ o \in gc.held
    \/ \E h \in gc.hooks : h.arg = "self" /\ h.obj = o

---------------------------------------------------------------------------
\* The behaviours.

\* what the caller holds: the value, the connection whose Get returned it
\* and the bytes it showed then
NoKept == [set |-> FALSE, conn |-> 0, val |-> GoCopy(<<>>), was |-> <<>>]

Init ==
    /\ variant \in Variants
    /\ conns = [c \in Conns |-> NoConn]
    /\ errmem = [c \in Conns |-> <<>>]
    /\ valmem = [c \in Conns |-> <<>>]
    /\ nodes = <<>>
    /\ db = [k \in DbKeys |-> Undef]
    /\ written = [k \in DbKeys |-> Undef]
    /\ last = NoCall
    /\ kept = NoKept
    /\ gc = [held |-> {}, hooks |-> {}, pinned |-> {},
             ran |-> [o \in Objs |-> 0],
             freed |-> [r \in Resources |-> 0]]
    /\ crashed = FALSE

\* NewConn / New: a thread creates its connection
NewConn(c) ==
    /\ ~crashed
    /\ ~conns[c].made
    /\ conns' = [conns EXCEPT ![c] = NewConnStruct(c)]
    /\ errmem' = [errmem EXCEPT ![c] =
                     Fill(NewConnStruct(c).errstr.len_alloc, UnsetChar)]
    /\ valmem' = [valmem EXCEPT ![c] = Fill(NewConnStruct(c).value.len_alloc, 0)]
    /\ gc' = [gc EXCEPT !.held = @ \cup {Obj("conn", c)},
                        !.hooks = @ \cup HooksOfConn(c),
                        !.pinned = IF variant = "pinner"
                                   THEN @ \cup {Obj("conn", c)} ELSE @]
    /\ last' = [NoCall EXCEPT !.op = "newconn", !.conn = c]
    /\ UNCHANGED <<variant, nodes, db, written, kept, crashed>>

\* src/node.go 229-231: SetMaxErr of package main replaces the error slice
SetMaxErr(c, errlen) ==
    /\ ~crashed
    /\ variant = "main"
    /\ conns[c].made
    /\ Obj("conn", c) \in gc.held
    /\ conns[c].errstr.buf_addr.gen < MaxResize
    /\ conns' = [conns EXCEPT ![c].errstr =
                    Desc(Ptr("err", c, @.buf_addr.gen + 1, 0), errlen, 0)]
    /\ errmem' = [errmem EXCEPT ![c] = Fill(errlen, UnsetChar)]
    /\ last' = [NoCall EXCEPT !.op = "setmaxerr", !.conn = c]
    /\ UNCHANGED <<variant, valmem, nodes, db, written, kept, gc, crashed>>

\* a node constructor call on connection c
NewNode(c, subscripts) ==
    /\ ~crashed
    /\ conns[c].made
    /\ Obj("conn", c) \in gc.held
    /\ Len(nodes) < MaxNodes
    /\ IF nodes = <<>> THEN TRUE
       ELSE SlotRank(c, subscripts)
              > SlotRank(nodes[Len(nodes)].owner, nodes[Len(nodes)].args)
    /\ LET nid == Len(nodes) + 1
           out == ConnNew(c, subscripts, nid)
       IN  /\ last' = [NoCall EXCEPT !.op = "new", !.conn = c,
                          !.arg = subscripts, !.panic = out.panic,
                          !.node = IF out.panic = "none" THEN nid ELSE 0]
           /\ nodes' = IF out.panic = "none" THEN nodes \o out.node ELSE nodes
           /\ gc' = IF out.panic = "none"
                    THEN [gc EXCEPT !.held = @ \cup {Obj("node", nid)},
                                    !.hooks = @ \cup HooksOfNode(nid),
                                    !.pinned = IF variant = "pinner"
                                               THEN @ \cup {Obj("node", nid)}
                                               ELSE @]
                    ELSE gc
    /\ UNCHANGED <<variant, conns, errmem, valmem, db, written, kept, crashed>>

Usable(i) == i \in 1..Len(nodes) /\ Obj("node", i) \in gc.held

\* String() on node i
StringCall(i) ==
    /\ ~crashed
    /\ variant \in {"cgo", "pinner"}
    /\ Usable(i)
    /\ last' = [NoCall EXCEPT !.op = "string", !.node = i,
                   !.val = GoCopy(String(nodes[i]))]
    /\ UNCHANGED <<variant, conns, errmem, valmem, nodes, db, written, kept, gc,
                   crashed>>

\* src/unnamed/part_000 88-92 and src/node.go 270-274: Dump prints the
\* retained Go strings, one to a line
RECURSIVE Lines(_)
Lines(ss) == IF ss = <<>> THEN <<>> ELSE Head(ss) \o <<"\n">> \o Lines(Tail(ss))

Dump(i) ==
    /\ ~crashed
    /\ variant \in {"keepalive", "main"}
    /\ Usable(i)
    /\ last' = [NoCall EXCEPT !.op = "dump", !.node = i,
                   !.val = GoCopy(Lines(nodes[i].bufGo))]
    /\ UNCHANGED <<variant, conns, errmem, valmem, nodes, db, written, kept, gc,
                   crashed>>

\* Set(val) on node i
Set(i, val) ==
    /\ ~crashed
    /\ variant \in {"cgo", "pinner", "keepalive"}
    /\ Usable(i)
    /\ IF variant = "cgo" THEN SetCgo(i, val) ELSE SetGo(i, val)
    /\ UNCHANGED <<variant, gc>>

\* Get(deflt...) on node i
Get(i, deflt) ==
    /\ ~crashed
    /\ variant \in {"cgo", "pinner"}
    /\ Usable(i)
    /\ IF variant = "cgo" THEN GetCgo(i, deflt) ELSE GetPinner(i, deflt)
    /\ UNCHANGED <<variant, gc>>

\* Get(deflt...) on node i while the thread of node j, on its own
\* connection, sets val under j's key: the engine serves that call between
\* the two calls of the Get
GetRaced(i, deflt, j, val) ==
    /\ ~crashed
    /\ variant = "pinner"
    /\ Usable(i) /\ Usable(j)
    /\ nodes[j].owner # nodes[i].owner
    /\ LET w == ydb_set_st(db, NativeKey(nodes[j]), val)
       IN  /\ w.status = YDB_OK
           /\ GetPinnerAmid(i, deflt, w.store)
           /\ db' = w.store
           /\ written' = [written EXCEPT ![NativeKey(nodes[j])] = val]
    /\ UNCHANGED <<variant, gc>>

\* the caller holds on to the value the Get it just made read from the engine
Hold ==
    /\ ~crashed
    /\ ~kept.set
    /\ last.op = "get" /\ last.panic = "none" /\ last.final = YDB_OK
    /\ last.val.n > 0
    /\ kept' = [set |-> TRUE, conn |-> nodes[last.node].owner,
                val |-> last.val, was |-> Deref(last.val)]
    /\ UNCHANGED <<variant, conns, errmem, valmem, nodes, db, written, last,
                   gc, crashed>>

\* the caller drops its last reference to object o
DropRef(o) ==
    /\ ~crashed
    /\ o \in gc.held
    /\ gc' = [gc EXCEPT !.held = @ \ {o}]
    /\ last' = [NoCall EXCEPT !.op = "drop", !.node = o.id]
    /\ UNCHANGED <<variant, conns, errmem, valmem, nodes, db, written, kept, crashed>>

\* the collector runs the cleanup of an object it manages and finds
\* unreachable; the runtime runs a cleanup once and forgets it
RunCleanup(o) ==
    /\ ~crashed
    /\ \E h \in gc.hooks :
         /\ h.obj = o
         /\ h.managed
         /\ ~Reachable(o)
         /\ gc' = [gc EXCEPT !.hooks = @ \ {h},
                             !.pinned = @ \ {o},
                             !.ran = [@ EXCEPT ![o] = @ + 1],
                             !.freed = [r \in Resources |->
                                          IF r \in CleanupFrees(o)
                                          THEN @[r] + 1 ELSE @[r]]]
    /\ UNCHANGED <<variant, conns, errmem, valmem, nodes, db, written, kept, last,
                   crashed>>

\* the calls of the binding, every object staying referenced
Next ==
    \/ \E c \in Conns : NewConn(c)
    \/ \E c \in Conns : \E errlen \in {1, MaxErrMsg + 1} : SetMaxErr(c, errlen)
    \/ \E c \in Conns : \E subscripts \in NodeInputs : NewNode(c, subscripts)
    \/ \E i \in 1..MaxNodes : StringCall(i)
    \/ \E i \in 1..MaxNodes : Dump(i)
    \/ \E i \in 1..MaxNodes : \E val \in InputVals : Set(i, val)
    \/ \E i \in 1..MaxNodes : \E deflt \in Defaults : Get(i, deflt)

Spec == Init /\ [][Next]_vars

\* the prototypes that have both Set and Get
InitCalls == Init /\ variant \in {"cgo", "pinner"}

\* one key read and written through both connections, the caller holding on
\* to a value it read
NextCopy ==
    \/ \E c \in Conns : NewConn(c)
    \/ \E c \in Conns : NewNode(c, <<GName>>)
    \/ \E i \in 1..MaxNodes : \E val \in InputVals : Set(i, val)
    \/ \E i \in 1..MaxNodes : \E deflt \in Defaults : Get(i, deflt)
    \/ Hold

SpecCopy == InitCalls /\ [][NextCopy]_vars

\* the calls of one thread, on the two keys the engine accepts, which fail
\* with different messages
FirstConn == CHOOSE c \in Conns : \A d \in Conns : c <= d

NextErr ==
    \/ NewConn(FirstConn)
    \/ \E subscripts \in DbKeys : NewNode(FirstConn, subscripts)
    \/ \E i \in 1..MaxNodes : \E val \in InputVals : Set(i, val)
    \/ \E i \in 1..MaxNodes : \E deflt \in Defaults : Get(i, deflt)

SpecErr == InitCalls /\ [][NextErr]_vars

\* two threads, each on its own connection, on one key the engine accepts
\* and one it rejects, a Get of one overlapping a Set of the other
RetryKeys == { <<EmptyText>>, <<GName>> }

\* values that fit the first scratch space, that need a second one, and
\* that outgrow the second one
RetryVals == { <<>>, Fill(MaxStr - 1, 1), Fill(MaxStr, 2) }

NextRetry ==
    \/ \E c \in Conns : NewConn(c)
    \/ \E c \in Conns : \E subscripts \in RetryKeys : NewNode(c, subscripts)
    \/ \E i \in 1..MaxNodes : \E val \in RetryVals : Set(i, val)
    \/ \E i \in 1..MaxNodes : \E deflt \in Defaults : Get(i, deflt)
    \/ \E i, j \in 1..MaxNodes : \E deflt \in Defaults :
          \E val \in RetryVals : GetRaced(i, deflt, j, val)

SpecRetry == InitCalls /\ [][NextRetry]_vars

\* one thread's nodes of every shape, rendered, set and read in any order
NextFrame ==
    \/ NewConn(FirstConn)
    \/ \E subscripts \in NodeInputs : NewNode(FirstConn, subscripts)
    \/ \E i \in 1..MaxNodes : StringCall(i)
    \/ \E i \in 1..MaxNodes : \E val \in InputVals : Set(i, val)
    \/ \E i \in 1..MaxNodes : \E deflt \in Defaults : Get(i, deflt)

SpecFrame == InitCalls /\ [][NextFrame]_vars

\* construction and rendering only
NextString ==
    \/ \E c \in Conns : NewConn(c)
    \/ \E c \in Conns : \E subscripts \in NodeInputs : NewNode(c, subscripts)
    \/ \E i \in 1..MaxNodes : StringCall(i)

SpecString == Init /\ [][NextString]_vars

\* the life of the objects: construction, the caller letting go, collection
NextGC ==
    \/ \E c \in Conns : NewConn(c)
    \/ \E c \in Conns : \E subscripts \in NodeInputs : NewNode(c, subscripts)
    \/ \E o \in Objs : DropRef(o)
    \/ \E o \in Objs : RunCleanup(o)

SpecGC == Init /\ [][NextGC]_vars /\ \A o \in Objs : WF_vars(RunCleanup(o))

---------------------------------------------------------------------------
\* The properties of the binding.

\* C1: a Get on a key that was never set, the engine reporting GVUNDEF or
\* LVUNDEF, returns (deflt[0], nil) when a default was passed, and ("", err)
\* with err's code the undefined-key status when none was
C1_DefaultSubstitution ==
    (last.op = "get" /\ last.panic = "none" /\ last.stored = Undef
       /\ IsUndef(last.final))
    => IF Len(last.arg) > 0
       THEN Deref(last.val) = last.arg[1] /\ last.err.isnil
       ELSE /\ Deref(last.val) = <<>>
            /\ ~last.err.isnil
            /\ Code(last.err) = last.final

\* C2: once Set(value) returned nil for a key, a Get on a node of that key
\* returns (value, nil) of the last such Set, byte for byte
C2_SetGetConsistency ==
    (last.op = "get" /\ last.stored # Undef
       /\ ValidKey(NativeKey(nodes[last.node]))
       /\ written[NativeKey(nodes[last.node])] # Undef)
    => /\ last.panic = "none"
       /\ last.err.isnil
       /\ Deref(last.val) = written[NativeKey(nodes[last.node])]

RECURSIVE Framed(_)
Framed(cs) ==
    IF cs = <<>> THEN <<>>
    ELSE <<"(", "\"">> \o Head(cs) \o <<"\"", ")">> \o Framed(Tail(cs))

\* C4: String() of a node built from c0..cn is c0 followed by ("ci") for
\* i = 1..n in order and nothing else, every component verbatim, also a
\* component that itself is (" or ")
C4_String ==
    last.op = "string"
    => Deref(last.val)
         = Head(nodes[last.node].args) \o Framed(Tail(nodes[last.node].args))

C4_Witness ==
    /\ last.op = "string"
    /\ nodes[last.node].args = <<LName, SubOpen, SubClose>>
    /\ Deref(last.val)
         = <<"v", "(", "\"", "(", "\"", "\"", ")", "(", "\"", "\"", ")", "\"", ")">>

\* C5: on every constructor a call with zero components panics as a usage
\* error and yields no node, a call with one (non-empty) component succeeds,
\* and every node that exists has at least one segment
C5_ConstructionInvariant ==
    /\ (last.op = "new" /\ Len(last.arg) = 0)
       => (last.panic = "usage" /\ last.node = 0)
    /\ (last.op = "new" /\ last.arg = <<GName>>) => last.panic = "none"
    /\ \A i \in 1..Len(nodes) : nodes[i].len >= 1 /\ Len(nodes[i].bufs) >= 1

\* the connection struct a node's calls go through
ConnOf(i) == IF variant = "cgo" THEN conns[nodes[i].owner] ELSE nodes[i].conn

\* what a call that ended in Error(code) handed back, code being the status
\* of its last engine call
C6_Translated ==
    (/\ last.op \in {"set", "get"}
     /\ last.panic = "none"
     /\ ~(last.op = "get" /\ Len(last.arg) > 0 /\ IsUndef(last.final)))
    => /\ last.err.isnil <=> last.final = YDB_OK
       /\ ~last.err.isnil =>
            /\ Code(last.err) = last.final
            /\ ErrorText(last.err)
                 = Take(ErrRegion(ConnOf(last.node), errmem),
                        ConnOf(last.node).errstr.len_used)
            /\ ErrorText(last.err)
                 = Take(Msg(last.final), ConnOf(last.node).errstr.len_alloc)

\* the message of the error the last call returned reads the same after
\* the next call
C6_Stable ==
    ~last.err.isnil => DerefIn(last.err.msg, valmem', errmem') = ErrorText(last.err)

\* C6: Error(code) is nil exactly for YDB_OK; otherwise it carries the code
\* and a copy of the first len_used bytes of the connection's error buffer,
\* which the call leaves in the buffer; the message of a returned error does
\* not change when a later call overwrites the buffer
C6_TranslateStatus == [](C6_Translated) /\ [][C6_Stable]_vars

C6_Witness ==
    /\ last.op = "get"
    /\ last.final = YDB_ERR_LVUNDEF
    /\ ~last.err.isnil
    /\ Code(last.err) = YDB_ERR_LVUNDEF
    /\ ErrorText(last.err) = <<"L">>
    /\ ErrRegion(ConnOf(last.node), errmem) = <<"L", "V">>

\* C7: a Set through a node of one connection leaves every other
\* connection's struct, value region and error region as they were
C7_Isolation ==
    [][(last'.op = "set" /\ last'.node \in 1..Len(nodes))
       => \A b \in Conns \ {nodes[last'.node].owner} :
            /\ conns'[b] = conns[b]
            /\ valmem'[b] = valmem[b]
            /\ errmem'[b] = errmem[b]]_vars

\* the object exists
Created(o) ==
    IF o.kind = "conn" THEN conns[o.id].made ELSE o.id \in 1..Len(nodes)

\* C8: a cleanup runs at most once and frees nothing twice, its argument is
\* only the handles to free, never the object, and once the caller dropped
\* its reference to an object the cleanup runs and every native block the
\* object owns is freed exactly once
C8_Cleanup ==
    /\ [](/\ \A o \in Objs : gc.ran[o] <= 1
          /\ \A r \in Resources : gc.freed[r] <= 1
          /\ \A h \in gc.hooks : h.arg = "handles")
    /\ \A o \in Objs :
         (Created(o) /\ o \notin gc.held)
         ~> (\A r \in Owned(o) : gc.freed[r] = 1)

\* C9: descriptor i of every node has len_alloc = len_used = the length of
\* component i as given to the constructor, and there are as many
\* descriptors as components
C9_DescriptorLengths ==
    \A i \in 1..Len(nodes) :
       /\ nodes[i].len = Len(nodes[i].args)
       /\ Len(nodes[i].bufs) = Len(nodes[i].args)
       /\ \A k \in 1..Len(nodes[i].args) :
            /\ nodes[i].bufs[k].len_alloc = Len(nodes[i].args[k])
            /\ nodes[i].bufs[k].len_used = Len(nodes[i].args[k])

\* C10: on YDB_OK Get returns the bytes the engine held, as a copy made
\* before the value buffer is used again: a value Get returned reads the
\* same ever after, whatever later calls do to the connection's value buffer
C10_CopyOut ==
    /\ (last.op = "get" /\ last.panic = "none" /\ last.final = YDB_OK)
       => (last.err.isnil /\ Deref(last.val) = last.stored)
    /\ kept.set => Deref(kept.val) = kept.was

C10_Witness ==
    /\ variant = "cgo"
    /\ kept.set
    /\ conns[kept.conn].value.buf_addr.rgn = "val"
    /\ Take(valmem[kept.conn], Len(kept.was)) # kept.was
    /\ Deref(kept.val) = kept.was

\* C11: in a node of the C-allocated design the backing data is the
\* components joined in order, descriptor i addresses the data at the sum
\* of the lengths of the components before it, so the descriptors' ranges
\* follow one another without gap or overlap, end where the data ends, and
\* reading descriptor i yields component i
C11_Packing ==
    variant = "cgo" =>
      \A i \in 1..Len(nodes) :
        LET n == nodes[i]
        IN  /\ n.data = Concat(n.args)
            /\ Len(n.data) = SumLen(n.args)
            /\ Len(n.bufs) = Len(n.args)
            /\ \A k \in 1..Len(n.args) :
                 /\ n.bufs[k].buf_addr
                      = Ptr("node", i, 0, SumLen(SubSeq(n.args, 1, k - 1)))
                 /\ n.bufs[k].buf_addr.off + n.bufs[k].len_used
                      = IF k < Len(n.args) THEN n.bufs[k + 1].buf_addr.off
                        ELSE Len(n.data)
                 /\ DescBytes(n, n.bufs[k]) = n.args[k]

C11_Witness ==
    /\ variant = "cgo"
    /\ \E i \in 1..Len(nodes) :
         /\ nodes[i].args = <<LName, SubOpen, SubClose>>
         /\ nodes[i].data = <<"v", "(", "\"", "\"", ")">>
         /\ nodes[i].bufs[3].buf_addr.off = 3
         /\ DescBytes(nodes[i], nodes[i].bufs[3]) = SubClose

C13_SetMarshaling ==
    (last.op = "set" /\ last.panic # "usage") =>
      LET n == nodes[last.node]
          cs == conns[n.owner]
      IN  /\ last.panic = "none"
          /\ last.calls = 1
          /\ NativeKey(n) = n.args
          /\ variant = "cgo" =>
               /\ cs.value.buf_addr = NewConnCgo(n.owner).value.buf_addr
               /\ cs.value.len_alloc = NewConnCgo(n.owner).value.len_alloc
               /\ cs.value.len_used = Len(last.arg)
               /\ Take(valmem[n.owner], Len(last.arg)) = last.arg
          /\ last.err.isnil <=> last.final = YDB_OK
          /\ ~last.err.isnil => Code(last.err) = last.final

\* C14: in the design whose connection owns the value buffer, a Set of a
\* value longer than that buffer's capacity is fatal before any engine call
\* and leaves the connection, the value buffer and the database as they
\* were; and each design has one policy for a value that does not fit: the
\* buffer-owning design is fatal in Set and never retries in Get, the
\* scratch-buffer design is never fatal in Set and retries in Get
C14_Fatal ==
    (variant = "cgo" /\ last.op = "set"
       /\ Len(last.arg) > conns[nodes[last.node].owner].value.len_alloc)
    => (last.panic = "usage" /\ last.calls = 0)

C14_Policy ==
    /\ (last.op = "set" /\ last.panic = "usage") => variant = "cgo"
    /\ (last.op = "get" /\ last.calls >= 1 /\ last.first = YDB_ERR_INVSTRLEN)
         => IF variant = "cgo"
            THEN last.panic = "usage" /\ last.calls = 1
            ELSE last.panic = "none" /\ last.calls = 2
    /\ (last.op = "get" /\ last.calls = 2) => variant # "cgo"

C14_Untouched ==
    (variant = "cgo" /\ last'.op = "set" /\ last' # last
       /\ Len(last'.arg) > conns[nodes[last'.node].owner].value.len_alloc)
    => (conns' = conns /\ valmem' = valmem /\ db' = db /\ written' = written)

C14_OverCapacity == [](C14_Fatal /\ C14_Policy) /\ [][C14_Untouched]_vars

C14_Witness ==
    /\ variant = "cgo"
    /\ last.op = "set"
    /\ Len(last.arg) = MaxStr + 1
    /\ conns[nodes[last.node].owner].value.len_alloc = MaxStr
    /\ last.panic = "usage"
    /\ db[NativeKey(nodes[last.node])] # Undef

\* C15: a Get makes one or two engine calls, the second only after the
\* first reported INVSTRLEN; when the status of its last call is not OK
\* (a second INVSTRLEN included) and is not an undefined-key status with a
\* default supplied, it returns the empty string and an error carrying that
\* status; the default is returned for no status but the undefined-key ones
C15_BoundedRetry ==
    last.op = "get" =>
      /\ last.calls <= 2
      /\ last.calls = 2 => last.first = YDB_ERR_INVSTRLEN
      /\ last.panic = "none" =>
           /\ last.calls >= 1
           /\ (last.final # YDB_OK
                 /\ ~(Len(last.arg) > 0
                        /\ last.final \in {YDB_ERR_GVUNDEF, YDB_ERR_LVUNDEF}))
              => /\ Deref(last.val) = <<>>
                 /\ ~last.err.isnil
                 /\ Code(last.err) = last.final
           /\ (Len(last.arg) > 0 /\ Deref(last.val) = last.arg[1])
              => last.final \in {YDB_ERR_GVUNDEF, YDB_ERR_LVUNDEF}

C15_Witness ==
    /\ last.op = "get"
    /\ last.panic = "none"
    /\ last.calls = 2
    /\ last.first = YDB_ERR_INVSTRLEN
    /\ last.final = YDB_ERR_INVSTRLEN
    /\ Len(last.arg) > 0
    /\ Deref(last.val) = <<>>
    /\ Code(last.err) = YDB_ERR_INVSTRLEN

\* C16: every node has its mutable flag false, and no step changes an
\* existing node's owner, its segment count, its descriptors, its backing
\* bytes or retained strings, its mutable flag, or the call token and error
\* buffer it holds for its owner; its String() is the same after the step.
\* The used length of the error buffer, which every failing call rewrites,
\* is state of the connection and not of the node's key
Owner(n) == <<n.owner, n.conn.tptoken, n.conn.errstr.buf_addr,
              n.conn.errstr.len_alloc>>

C16_Frame ==
    /\ Len(nodes') >= Len(nodes)
    /\ \A i \in 1..Len(nodes) :
         /\ Owner(nodes'[i]) = Owner(nodes[i])
         /\ nodes'[i].len = nodes[i].len
         /\ nodes'[i].bufs = nodes[i].bufs
         /\ nodes'[i].data = nodes[i].data
         /\ nodes'[i].bufGo = nodes[i].bufGo
         /\ nodes'[i].mutable = nodes[i].mutable
         /\ String(nodes'[i]) = String(nodes[i])

===========================================================================
